---- MODULE Spec2Model ----
(***************************************************************************)
(* Model of the browser task agent of Code/agent.py: Agent.run (session    *)
(* and login state machine, task-URL and plan requests) and                *)
(* Agent.execute_ui_plan (per-step retry loop, step log, recovery), over   *)
(* PlaywrightController.execute_action and GeminiClient.plan_action.       *)
(*                                                                         *)
(* Spec is a whole run, up to the report that main writes.  SpecPlan and   *)
(* SpecCap are execute_ui_plan on its own, SpecGateway is one call of      *)
(* GeminiClient.plan_action with its send loop and its reading of the      *)
(* response text, SpecUrl is one call of Agent._clean_url.  SpecCapture is *)
(* the State Recorder (capture and _capture_unique_state), SpecLogin the   *)
(* run up to the end of the login stage, with fairness, and SpecAlias is   *)
(* execute_ui_plan on steps spelled with the alias keys.                   *)
(*                                                                         *)
(* Python values are modelled by records with a fixed set of fields.  A    *)
(* key that is missing from a dict, and the value None, are both the       *)
(* marker NoneVal; the code reads every key with dict.get, so the two are  *)
(* the same to it, except for the test `"value" in step`, which the step   *)
(* record keeps as its own field has_value.                                *)
(***************************************************************************)
EXTENDS Naturals, Sequences, FiniteSets, TLC

VARIABLES
    pc,            \* position of the control flow in Agent.run / execute_ui_plan
    task,          \* the task argument of Agent.run
    cookieFile,    \* outdir/cookies.json on disk: "absent", or the shape of its content
    cookieAtStart, \* cookieFile when the run started (history)
    replay,        \* outcome of the cookie-replay probe: "none", "ok", "failed" (history)
    injected,      \* context.add_cookies succeeded in preload_cookies
    logged_in,     \* local logged_in of Agent.run
    base_url,      \* self.base_url
    elapsed,       \* time.time() - start_time, in seconds, while polling
    fileWrites,    \* number of times cookies.json was written in this run (history)
    bannerShown,   \* show_manual_login_prompt was called (history)
    visited,       \* kinds of page the controller was sent to with goto (history)
    page_url,      \* controller.page.url, the page the browser is on
    sent,          \* prompts handed to GeminiClient.plan_action, in order (history)
    ui_plan,       \* the plan handed to execute_ui_plan
    idx,           \* enumerate index of the step being executed (1-based in the model)
    attempts,      \* value of result after each pass of the retry loop made so far
                   \* for the current step (history)
    lastDrv,       \* what the driver did in the latest pass (history)
    result,        \* local result of execute_ui_plan
    results,       \* the log built by execute_ui_plan
    lastReply,     \* local repl of execute_ui_plan: the planner's reply to the
                   \* recovery request of the current step
    replExecs,     \* calls of execute_action made for corrective actions (history)
    execution_results, \* what execute_ui_plan returned: "none", "ui_plan_not_list", "log"
    retval,        \* what Agent.run returned
    reports,       \* number of report documents main has written (history)
    captured_names,    \* controller.captured_names
    last_dom_snapshot, \* agent.last_dom_snapshot
    page_dom,          \* what page.content() returns now
    captures,          \* for each label, what each call of capture returned and
                       \* how many driver calls it made (history)
    max_steps,     \* self.max_steps, from the config
    attempt,       \* loop variable of the send loop of plan_action
    transport,     \* outcome of each requests.post made by plan_action (history)
    data,          \* local data of plan_action: the decoded response body
    response_text, \* local text of plan_action: the joined, stripped parts
    reply,         \* what plan_action returned
    url_arg,       \* argument url of _clean_url
    cleaned_url    \* what _clean_url returned

vars == <<pc, task, cookieFile, cookieAtStart, replay, injected, logged_in,
          base_url, elapsed, fileWrites, bannerShown, visited, page_url, sent,
          ui_plan,
          idx, attempts, lastDrv, result, results, lastReply, replExecs,
          execution_results, retval, reports,
          captured_names, last_dom_snapshot, page_dom, captures,
          max_steps, attempt, transport, data, response_text, reply,
          url_arg, cleaned_url>>

(***************************************************************************)
(* Bounds of the model and constants of the program                        *)
(***************************************************************************)
MaxPlanLen == 2

MaxRunPlanLen == 1

max_retries == 2

MANUAL_LOGIN_TIMEOUT == 120

POLL_INTERVAL == 3

(***************************************************************************)
(* Python values                                                           *)
(***************************************************************************)
NoneVal == "None"

Truthy(v) == v \notin {NoneVal, ""}

PyOr(a, b) == IF Truthy(a) THEN a ELSE b

Tasks == {"create a project"}

(***************************************************************************)
(* ActionResult: a dict with a status key or an error key; NoResult is the *)
(* initial `result = None` of the retry loop.                              *)
(***************************************************************************)
NoResult == [isdict |-> FALSE, status |-> NoneVal, error |-> NoneVal]

StatusResult(s) == [isdict |-> TRUE, status |-> s, error |-> NoneVal]

ErrorResult(e) == [isdict |-> TRUE, status |-> NoneVal, error |-> e]

SuccessResult(r) == r.isdict /\ (Truthy(r.status) \/ ~Truthy(r.error))

FailedResult(r) == r.isdict /\ Truthy(r.error)

(***************************************************************************)
(* The browser driver.  Every call of the controller into the page has one *)
(* of these outcomes: the (first) query matches and the gesture is made,   *)
(* only the fallback query of a click by text matches, nothing matches, or *)
(* the driver raises.                                                      *)
(***************************************************************************)
DriverOutcomes == {"found", "fallback", "absent", "raise"}

(***************************************************************************)
(* The action dict handed to execute_action.  form is "dict" for a dict    *)
(* with keys, "empty" for {}, "none" for None and "str" for a non-empty    *)
(* string (the value of the action key of a flat recovery reply), whose    *)
(* text is kept in type.                                                   *)
(***************************************************************************)
NoAction ==
    [form |-> "empty", type |-> NoneVal, action |-> NoneVal, selector |-> NoneVal,
     text |-> NoneVal, value |-> NoneVal, by_text |-> FALSE]

ActionDict(typ, selector, text, by_text) ==
    [form |-> "dict", type |-> typ, action |-> NoneVal, selector |-> selector,
     text |-> text, value |-> NoneVal, by_text |-> by_text]

DriverError == ErrorResult("execute_action_failed")

FillAction(action, drv) ==
    IF Truthy(action.selector)
    THEN IF drv = "found" THEN StatusResult("filled") ELSE DriverError
    ELSE CASE drv = "raise" -> DriverError
           [] drv = "found" -> StatusResult("filled_first_input")
           [] OTHER -> StatusResult("no_input_found")

ClickByText(action, drv) ==
    CASE drv = "raise" -> DriverError
      [] drv = "found" -> StatusResult("clicked_by_text")
      [] drv = "fallback" -> StatusResult("clicked_by_text_fallback")
      [] OTHER -> StatusResult("no_element_by_text")

ClickBySelectorMissingIsError(action, drv) ==
    CASE drv = "raise" -> DriverError
      [] drv = "found" -> StatusResult("clicked")
      [] OTHER -> ErrorResult("no_element")

ClickBySelector(action, drv) ==
    CASE drv = "raise" -> DriverError
      [] drv = "found" -> StatusResult("clicked")
      [] OTHER -> StatusResult("no_element")

ClickAction(action, drv) ==
    IF action.by_text /\ Truthy(action.text) THEN ClickByText(action, drv)
    ELSE IF Truthy(action.selector) THEN ClickBySelector(action, drv)
    ELSE ErrorResult("no_selector_for_click")

PressAction(action, drv) ==
    IF drv = "raise" THEN DriverError ELSE StatusResult("pressed")

ScrollAction(action, drv) ==
    IF drv = "raise" THEN DriverError ELSE StatusResult("scrolled")

WaitAction(action, drv) == StatusResult("waited")

\* execute_action raises before its try block when the action is not a dict
ExecuteActionRaises(action) == action.form = "str"

ExecuteAction(action, drv) ==
    IF action.form \in {"empty", "none"}
    THEN ErrorResult("no_action_provided")
    ELSE LET typ == PyOr(action.type, action.action) IN
         CASE typ \in {"fill", "type", "set_value"} -> FillAction(action, drv)
           [] typ = "click" -> ClickAction(action, drv)
           [] typ = "press" -> PressAction(action, drv)
           [] typ = "scroll" -> ScrollAction(action, drv)
           [] typ = "wait" -> WaitAction(action, drv)
           [] OTHER -> ErrorResult("unknown_action_type")

(***************************************************************************)
(* Plan steps as the planner returns them.  isobj is FALSE for a list      *)
(* element that is not a JSON object.                                      *)
(***************************************************************************)
MkStep(a, s, v, t, bt) ==
    [isobj |-> TRUE, action |-> a, type |-> NoneVal, selector |-> s,
     sel |-> NoneVal, query |-> NoneVal, value |-> v, has_value |-> v # NoneVal,
     text |-> t, fill |-> NoneVal, by_text |-> bt]

NonObjStep ==
    [isobj |-> FALSE, action |-> NoneVal, type |-> NoneVal, selector |-> NoneVal,
     sel |-> NoneVal, query |-> NoneVal, value |-> NoneVal, has_value |-> FALSE,
     text |-> NoneVal, fill |-> NoneVal, by_text |-> FALSE]

StepUniverse ==
    { MkStep("click", "#submit", NoneVal, NoneVal, FALSE),
      MkStep("click", NoneVal, NoneVal, NoneVal, FALSE),
      MkStep("click", NoneVal, NoneVal, "Save", TRUE),
      MkStep("click", NoneVal, NoneVal, NoneVal, TRUE),
      MkStep("type", "#name", "X", NoneVal, FALSE),
      MkStep("fill", NoneVal, "X", NoneVal, FALSE),
      MkStep("select", "#opt", "v", NoneVal, FALSE),
      MkStep("select", "#opt", NoneVal, NoneVal, FALSE),
      MkStep("select", NoneVal, "v", NoneVal, FALSE),
      MkStep("hover", "#menu", NoneVal, NoneVal, FALSE),
      MkStep("hover", NoneVal, NoneVal, NoneVal, FALSE),
      MkStep("press", NoneVal, NoneVal, NoneVal, FALSE),
      MkStep("wait", NoneVal, NoneVal, NoneVal, FALSE),
      MkStep("drag", "#a", NoneVal, NoneVal, FALSE),
      NonObjStep }

RECURSIVE SeqsUpTo(_, _)
SeqsUpTo(S, n) ==
    IF n = 0 THEN {<<>>}
    ELSE LET shorter == SeqsUpTo(S, n - 1) IN
         shorter \cup {Append(q, x) : q \in {r \in shorter : Len(r) = n - 1}, x \in S}

\* the plans execute_ui_plan is checked on, and the plans a whole run is
\* checked on
Plans == SeqsUpTo(StepUniverse, MaxPlanLen)

RunPlans == SeqsUpTo(StepUniverse, MaxRunPlanLen)

(***************************************************************************)
(* execute_ui_plan: normalisation of a step and one pass of the retry loop *)
(***************************************************************************)
StepType(step) == PyOr(step.action, step.type)

StepSelector(step) == PyOr(step.selector, PyOr(step.sel, step.query))

StepValue(step) == PyOr(step.value, PyOr(step.text, step.fill))

\* the action_dict built for the kinds that go through execute_action
BuildActionDict(step) ==
    LET typ == StepType(step)
        selector == StepSelector(step)
        value == StepValue(step)
    IN CASE typ \in {"fill", "type", "set_value"} ->
              ActionDict("fill", selector, PyOr(value, ""), FALSE)
         [] typ = "click" ->
              IF Truthy(selector) THEN ActionDict("click", selector, NoneVal, FALSE)
              ELSE IF step.by_text THEN ActionDict("click", NoneVal, step.text, TRUE)
              ELSE NoAction
         [] typ = "press" -> ActionDict("press", NoneVal, NoneVal, FALSE)
         [] typ = "wait" -> ActionDict("wait", NoneVal, NoneVal, FALSE)
         [] typ = "scroll" -> ActionDict("scroll", NoneVal, NoneVal, FALSE)
         [] OTHER -> NoAction

ViaExecuteAction(step) ==
    StepType(step) \in {"fill", "type", "set_value", "click", "press", "wait", "scroll"}

SelectStep(step, drv) ==
    IF Truthy(StepSelector(step)) /\ step.has_value
    THEN IF drv = "found"
         THEN [result |-> StatusResult("selected"), brk |-> TRUE]
         ELSE [result |-> ErrorResult("exception"), brk |-> FALSE]
    ELSE [result |-> ErrorResult("select_missing_selector_or_value"), brk |-> TRUE]

HoverStepLosesFailure(step, drv) ==
    IF Truthy(StepSelector(step))
    THEN IF drv = "found"
         THEN [result |-> StatusResult("hovered"), brk |-> TRUE]
         ELSE [result |-> NoResult, brk |-> FALSE]
    ELSE [result |-> ErrorResult("hover_no_selector"), brk |-> TRUE]

HoverStep(step, drv) ==
    IF Truthy(StepSelector(step))
    THEN IF drv = "found"
         THEN [result |-> StatusResult("hovered"), brk |-> TRUE]
         ELSE [result |-> ErrorResult("exception"), brk |-> FALSE]
    ELSE [result |-> ErrorResult("hover_no_selector"), brk |-> TRUE]

\* One pass of the loop body (lines 53-103): the new value of result, and
\* whether the body left the loop with break.  prev is result before the pass.
AttemptStep(step, prev, drv) ==
    LET typ == StepType(step) IN
    IF ViaExecuteAction(step)
    THEN LET action_dict == BuildActionDict(step) IN
         [result |-> IF action_dict.form = "dict"
                     THEN ExecuteAction(action_dict, drv) ELSE prev,
          brk |-> FALSE]
    ELSE IF typ \in {"select", "select_option"} THEN SelectStep(step, drv)
    ELSE IF typ = "hover" THEN HoverStep(step, drv)
    ELSE [result |-> ErrorResult("unknown_action"), brk |-> TRUE]

\* what the driver can do in a pass for this step: only a click by text has
\* a fallback query; press and scroll query nothing; wait does not reach the
\* driver; a step that is answered without the driver has the one outcome
StepDriverOutcomes(step) ==
    LET typ == StepType(step)
        action_dict == BuildActionDict(step)
    IN CASE typ = "click" /\ action_dict.form = "dict"
               /\ action_dict.by_text /\ Truthy(action_dict.text) -> DriverOutcomes
         [] typ = "click" /\ ~Truthy(StepSelector(step)) -> {"absent"}
         [] typ \in {"press", "scroll"} -> {"found", "raise"}
         [] typ = "wait" -> {"found"}
         [] typ \in {"select", "select_option"}
               /\ ~(Truthy(StepSelector(step)) /\ step.has_value) -> {"absent"}
         [] typ = "hover" /\ ~Truthy(StepSelector(step)) -> {"absent"}
         [] typ \in {"fill", "type", "set_value", "click", "select", "select_option",
                     "hover"} -> {"found", "absent", "raise"}
         [] OTHER -> {"absent"}

MaxAttemptsOffByOne == max_retries + 2

MaxAttempts == max_retries + 1

\* the retry loop is left after this pass
LoopEnds(out, made) == out.brk \/ SuccessResult(out.result) \/ made >= MaxAttempts

StepRecordConstantIndex(i, step, r) == [step_index |-> 0, step |-> step, result |-> r]

\* line 109: {"step_index": idx, "step": step, "result": result}
StepRecord(i, step, r) == [step_index |-> i - 1, step |-> step, result |-> r]

ReplRecord(action, r) == [repl_step |-> action, repl_result |-> r]

IsStepRecord(rec) == "step_index" \in DOMAIN rec

(***************************************************************************)
(* The planner gateway as its callers see it: the values plan_action can   *)
(* return for each of the prompts.                                         *)
(***************************************************************************)
NoneAction == [NoAction EXCEPT !.form = "none"]

StrAction(kind) == [NoAction EXCEPT !.form = "str", !.type = kind]

Reply(isdict, error, verdict, action) ==
    [isdict |-> isdict, error |-> error, verdict |-> verdict, action |-> action]

NoReply == Reply(FALSE, NoneVal, NoneVal, NoneAction)

\* {"error": ...} after a transport failure; {"verdict": "done"}; the flat
\* ActionStep object the recovery prompt asks for; an action key holding an
\* action object; a JSON array
RecoveryReplies ==
    { Reply(TRUE, "HTTP error after retry", NoneVal, NoneAction),
      Reply(TRUE, NoneVal, "done", NoneAction),
      Reply(TRUE, NoneVal, NoneVal, StrAction("click")),
      Reply(TRUE, NoneVal, NoneVal, ActionDict("click", "#submit", NoneVal, FALSE)),
      Reply(FALSE, NoneVal, NoneVal, NoneAction) }

\* the reply is the single ActionStep object of the recovery prompt
FlatActionReply(repl) == repl.isdict /\ repl.action.form = "str"

\* replies to the base-URL and task-URL prompts: a dict with a url key, a
\* dict carrying raw_text (the usual case: the answer is plain text), an
\* error dict, and a planner answer that is an object with an error key and
\* a url key
UrlReply(url, raw_text, error) ==
    [isdict |-> TRUE, url |-> url, raw_text |-> raw_text, error |-> error]

\* the URL of the one reply of UrlReplies that carries an error key next to
\* its url key
UrlOfErrorReply == "https://error.example"

UrlReplies ==
    { UrlReply("https://linear.app", NoneVal, NoneVal),
      UrlReply(NoneVal, "https://linear.app", NoneVal),
      UrlReply(NoneVal, "linear.app", NoneVal),
      UrlReply(NoneVal, NoneVal, "No candidates"),
      UrlReply(UrlOfErrorReply, NoneVal, "quota exceeded") }

\* re.search(r"https?://[^\s'\"]+", text) and str.startswith("http") on the
\* texts of UrlReplies
RegexUrl(text) ==
    IF text \in {"https://linear.app", UrlOfErrorReply} THEN text ELSE NoneVal

StartsWithHttp(text) ==
    text \in {"https://linear.app", "https://www.google.com", UrlOfErrorReply}

clean_url(url) ==
    IF ~Truthy(url) THEN ""
    ELSE IF ~StartsWithHttp(url) THEN ""
    ELSE url

ReplyUrlText(resp) ==
    IF resp.isdict
    THEN PyOr(resp.url, IF resp.raw_text = NoneVal THEN "" ELSE resp.raw_text)
    ELSE ""

BaseUrlOf(resp) ==
    LET text == ReplyUrlText(resp)
        found == IF RegexUrl(text) # NoneVal THEN RegexUrl(text) ELSE text
        cleaned == clean_url(found)
    IN IF cleaned = "" THEN "https://www.google.com" ELSE cleaned

\* replies to the plan prompt: form is "list", "dict", "str" or "other"
\* (number, null); key names the key of a dict under which the list items
\* sits; parses says whether json.loads accepts a str reply
PlanReply(form, key, parses, items) ==
    [form |-> form, key |-> key, parses |-> parses, items |-> items]

SamplePlan == << MkStep("click", "#submit", NoneVal, NoneVal, FALSE) >>

PlanReplies ==
    { PlanReply("list", NoneVal, FALSE, p) : p \in RunPlans }
    \cup { PlanReply("dict", k, FALSE, SamplePlan) : k \in {"plan", "steps"} }
    \cup { PlanReply("dict", NoneVal, FALSE, <<>>),
           PlanReply("str", NoneVal, FALSE, <<>>),
           PlanReply("str", NoneVal, TRUE, <<>>),
           PlanReply("other", NoneVal, FALSE, <<>>) }

NoPlan == [islist |-> FALSE, items |-> <<>>]

\* lines 282-291; a str reply that json.loads accepts is a JSON scalar here
NormalizePlan(resp) ==
    CASE resp.form = "list" -> [islist |-> TRUE, items |-> resp.items]
      [] resp.form = "dict" /\ resp.key # NoneVal /\ resp.items # <<>> ->
             [islist |-> TRUE, items |-> resp.items]
      [] OTHER -> NoPlan

Prompt(kind, t, i) == [kind |-> kind, task |-> t, idx |-> i]

(***************************************************************************)
(* Planner response texts.  A text is a sequence of tokens, each standing  *)
(* for a piece of the response that the code never takes apart:            *)
(*   "{" "}" "[" "]"  the bracket characters                               *)
(*   "str"     a double-quoted string without brackets, as in "s"          *)
(*   "sqstr"   the same in single quotes, as in 's'                        *)
(*   "key"     a double-quoted key and its colon, as in "k":               *)
(*   "bare"    an unquoted key and its colon, as in k:                     *)
(*   "prose"   a run of punctuation that is no JSON, as in --              *)
(*   "sp"      white space                                                 *)
(* There is no comma, so the arrays and objects of these texts have at     *)
(* most one member.                                                        *)
(***************************************************************************)
MaxTextLen == 4

Tokens == {"{", "}", "[", "]", "str", "sqstr", "key", "bare", "prose", "sp"}

Texts == SeqsUpTo(Tokens, MaxTextLen)

RECURSIVE LStrip(_)
LStrip(s) == IF s # <<>> /\ Head(s) = "sp" THEN LStrip(Tail(s)) ELSE s

RECURSIVE RStrip(_)
RStrip(s) ==
    IF s # <<>> /\ s[Len(s)] = "sp" THEN RStrip(SubSeq(s, 1, Len(s) - 1)) ELSE s

\* str.strip()
Strip(s) == RStrip(LStrip(s))

IsNotSpace(tok) == tok # "sp"

RECURSIVE IsJsonValue(_)
IsJsonValue(s) ==
    \/ s = <<"str">>
    \/ /\ Len(s) >= 2
       /\ s[1] = "["
       /\ s[Len(s)] = "]"
       /\ (Len(s) = 2 \/ IsJsonValue(SubSeq(s, 2, Len(s) - 1)))
    \/ /\ Len(s) >= 2
       /\ s[1] = "{"
       /\ s[Len(s)] = "}"
       /\ \/ Len(s) = 2
          \/ Len(s) >= 4 /\ s[2] = "key" /\ IsJsonValue(SubSeq(s, 3, Len(s) - 1))

\* json.loads: white space between tokens is skipped; the value parsed is
\* kept as its tokens.  ok is FALSE when json.loads raises.
ParseFailure == [ok |-> FALSE, value |-> <<>>]

json_loads(s) ==
    LET body == SelectSeq(s, IsNotSpace)
    IN IF IsJsonValue(body) THEN [ok |-> TRUE, value |-> body] ELSE ParseFailure

Positions(s, tok) == {i \in 1..Len(s) : s[i] = tok}

MaxOf(S) == CHOOSE x \in S : \A y \in S : y <= x

MinOf(S) == CHOOSE x \in S : \A y \in S : x <= y

\* one alternative of the pattern, open [\s\S]* close, tried at position i:
\* the star is greedy, so the match ends at the last close of the text
SpanAt(s, i, open, close) ==
    IF s[i] = open /\ \E j \in Positions(s, close) : j > i
    THEN <<i, MaxOf(Positions(s, close))>>
    ELSE <<>>

MatchAt(s, i) ==
    IF SpanAt(s, i, "{", "}") # <<>> THEN SpanAt(s, i, "{", "}")
    ELSE SpanAt(s, i, "[", "]")

\* re.search(r"(\{[\s\S]*\}|\[[\s\S]*\])", text): the leftmost position at
\* which one of the alternatives matches; <<>> for no match
re_search(s) ==
    LET starts == {i \in 1..Len(s) : MatchAt(s, i) # <<>>}
    IN IF starts = {} THEN <<>> ELSE MatchAt(s, MinOf(starts))

\* line 104-105: single quotes become double quotes, a word before a colon
\* is put in double quotes
CleanupToken(tok) ==
    CASE tok = "sqstr" -> "str"
      [] tok = "bare" -> "key"
      [] OTHER -> tok

Cleanup(s) == [i \in 1..Len(s) |-> CleanupToken(s[i])]

extract_json_from_text(s) ==
    LET match == re_search(s) IN
    IF match = <<>> THEN ParseFailure
    ELSE LET json_str == SubSeq(s, match[1], match[2]) IN
         IF json_loads(json_str).ok THEN json_loads(json_str)
         ELSE json_loads(Cleanup(json_str))

(***************************************************************************)
(* GeminiClient.plan_action                                                *)
(***************************************************************************)
\* the decoded response body: null, an object without candidates, with an
\* empty candidates list, with a first candidate that is no object, with a
\* first candidate whose parts join to text; or a JSON array
Body(kind, t) == [kind |-> kind, text |-> t]

NoData == Body("none", <<>>)

Bodies ==
    { Body(k, <<>>) : k \in {"none", "no_candidates_key", "empty_candidates",
                             "bad_candidate", "array"} }
    \cup { Body("candidates", t) : t \in Texts }

GatewayReply(kind, error, value) == [kind |-> kind, error |-> error, value |-> value]

NotReturned == GatewayReply("none", NoneVal, <<>>)

ErrorReply(e) == GatewayReply("error", e, <<>>)

JsonReply(value) == GatewayReply("json", NoneVal, value)

RawTextReply(t) == GatewayReply("raw_text", NoneVal, t)

\* line 60 calls data.get on a body that is truthy and no dict
BodyRaises(d) == d.kind = "array"

RawTextFallbackIsError(t) == ErrorReply("unparseable")

\* line 84
RawTextFallback(t) == RawTextReply(t)

EmptyTextNeverDetected(t) == FALSE

\* line 70
EmptyText(t) == t = <<>>

\* lines 60-87
ParseBody(d) ==
    IF d.kind \in {"none", "no_candidates_key", "empty_candidates"}
    THEN ErrorReply("No candidates")
    ELSE IF d.kind = "bad_candidate" THEN ErrorReply("Parse error")
    ELSE LET t == Strip(d.text) IN
         IF EmptyText(t) THEN ErrorReply("Empty Gemini response")
         ELSE IF extract_json_from_text(t).ok
              THEN JsonReply(extract_json_from_text(t).value)
         ELSE IF json_loads(t).ok THEN JsonReply(json_loads(t).value)
         ELSE RawTextFallback(t)

TransportOutcomes == {"ok", "fail"}

DefaultMaxSteps == 20

GatewayIdle ==
    /\ attempt = 0
    /\ transport = <<>>
    /\ data = NoData
    /\ response_text = <<>>
    /\ reply = NotReturned

UrlIdle == url_arg = <<>> /\ cleaned_url = <<>>

(***************************************************************************)
(* The State Recorder: PlaywrightController.capture and                    *)
(* Agent._capture_unique_state.  Agent.run calls them at lines 267 and     *)
(* 270; nothing else in the run reads the names already captured or the    *)
(* latest snapshot.                                                        *)
(***************************************************************************)
MaxCaptureCalls == 3

Labels == {"task_page_loaded", "aligned_authenticated_page"}

Doms == {"dom_a", "dom_b"}

\* what capture returned and the number of driver calls it made (history)
CaptureRecord(dom, path, touches) == [dom |-> dom, path |-> path, touches |-> touches]

\* line 42: return "", None
Placeholder == CaptureRecord("", NoneVal, 0)

CaptureIdle ==
    /\ captured_names = {}
    /\ last_dom_snapshot = NoneVal
    /\ page_dom = "dom_a"
    /\ captures = [label \in Labels |-> <<>>]

AlreadyCapturedNever(names, label) == FALSE

\* line 41: if label in self.captured_names
AlreadyCaptured(names, label) == label \in names

\* lines 40-55: the names captured after the call, and what the call
\* returned; domOk and shotOk say whether page.content() and
\* page.screenshot() went through
CaptureCall(names, label, dom, domOk, shotOk) ==
    IF AlreadyCaptured(names, label)
    THEN [names |-> names, ret |-> Placeholder]
    ELSE [names |-> names \cup {label},
          ret |-> CaptureRecord(IF domOk THEN dom ELSE "<no DOM captured>",
                                IF shotOk THEN label ELSE NoneVal, 2)]

CaptureCallsMade == Len(captures["task_page_loaded"]) + Len(captures["aligned_authenticated_page"])

(***************************************************************************)
(* PlaywrightController.is_logged_in: a cookie whose name looks like a     *)
(* session cookie, or a page without any login phrase.                     *)
(***************************************************************************)
CookieSignals == {"hit", "miss", "raise"}

DomSignals == {"login_phrase", "clean", "raise"}

is_logged_in(cookieSig, domSig) == cookieSig = "hit" \/ domSig = "clean"

(***************************************************************************)
(* Agent.run                                                               *)
(***************************************************************************)
CookieFiles == {"absent", "cookie_list", "storage_state"}

Init ==
    /\ pc = "start"
    /\ task \in Tasks
    /\ cookieFile \in CookieFiles
    /\ cookieAtStart = cookieFile
    /\ replay = "none"
    /\ injected = FALSE
    /\ logged_in = FALSE
    /\ base_url = NoneVal
    /\ elapsed = 0
    /\ fileWrites = 0
    /\ bannerShown = FALSE
    /\ visited = {}
    /\ page_url = "about:blank"
    /\ sent = <<>>
    /\ ui_plan = NoPlan
    /\ idx = 0
    /\ attempts = <<>>
    /\ lastDrv = NoneVal
    /\ result = NoResult
    /\ results = <<>>
    /\ lastReply = NoReply
    /\ replExecs = 0
    /\ execution_results = "none"
    /\ retval = "none"
    /\ reports = 0
    /\ CaptureIdle
    /\ max_steps = DefaultMaxSteps
    /\ GatewayIdle
    /\ UrlIdle

captureVars == <<captured_names, last_dom_snapshot, page_dom, captures>>

gatewayVars == <<attempt, transport, data, response_text, reply>>

urlVars == <<url_arg, cleaned_url>>

planVars == <<ui_plan, idx, attempts, lastDrv, result, results, lastReply, replExecs,
              execution_results>>

loginVars == <<cookieFile, replay, injected, logged_in, base_url, elapsed,
               fileWrites, bannerShown>>

\* lines 150-171: browser and page are set up, the start URL is opened
Launch ==
    /\ pc = "start"
    /\ visited' = visited \cup {"start"}
    /\ page_url' = "start_url"
    /\ pc' = "login"
    /\ UNCHANGED <<task, max_steps, reports, captureVars, gatewayVars, urlVars, cookieAtStart, loginVars, sent, planVars, retval>>

CookieReplayForgetsLogin ==
    /\ pc = "login"
    /\ cookieFile # "absent"
    /\ \E c \in CookieSignals, d \in DomSignals :
          /\ injected' = (cookieFile = "cookie_list")
          /\ IF is_logged_in(c, d)
             THEN /\ logged_in' = FALSE
                  /\ replay' = "ok"
                  /\ cookieFile' = cookieFile
                  /\ pc' = "manual"
             ELSE /\ logged_in' = FALSE
                  /\ replay' = "failed"
                  /\ cookieFile' = "absent"
                  /\ pc' = "manual"
    /\ UNCHANGED <<task, max_steps, reports, captureVars, gatewayVars, urlVars, cookieAtStart, base_url, elapsed, fileWrites, bannerShown,
                   visited, page_url, sent, planVars, retval>>

CookieReplayKeepsFile ==
    /\ pc = "login"
    /\ cookieFile # "absent"
    /\ \E c \in CookieSignals, d \in DomSignals :
          /\ injected' = (cookieFile = "cookie_list")
          /\ IF is_logged_in(c, d)
             THEN /\ logged_in' = TRUE
                  /\ replay' = "ok"
                  /\ cookieFile' = cookieFile
                  /\ pc' = "task_url"
             ELSE /\ logged_in' = FALSE
                  /\ replay' = "failed"
                  /\ cookieFile' = cookieFile
                  /\ pc' = "manual"
    /\ UNCHANGED <<task, max_steps, reports, captureVars, gatewayVars, urlVars, cookieAtStart, base_url, elapsed, fileWrites, bannerShown,
                   visited, page_url, sent, planVars, retval>>

\* lines 173-184: cookies.json exists; preload_cookies hands its content to
\* context.add_cookies, which takes a list of cookies only
CookieReplay ==
    /\ pc = "login"
    /\ cookieFile # "absent"
    /\ \E c \in CookieSignals, d \in DomSignals :
          /\ injected' = (cookieFile = "cookie_list")
          /\ IF is_logged_in(c, d)
             THEN /\ logged_in' = TRUE
                  /\ replay' = "ok"
                  /\ cookieFile' = cookieFile
                  /\ pc' = "task_url"
             ELSE /\ logged_in' = FALSE
                  /\ replay' = "failed"
                  /\ cookieFile' = "absent"
                  /\ pc' = "manual"
    /\ UNCHANGED <<task, max_steps, reports, captureVars, gatewayVars, urlVars, cookieAtStart, base_url, elapsed, fileWrites, bannerShown,
                   visited, page_url, sent, planVars, retval>>

\* line 173, no cookies.json
NoCookies ==
    /\ pc = "login"
    /\ cookieFile = "absent"
    /\ pc' = "manual"
    /\ UNCHANGED <<task, max_steps, reports, captureVars, gatewayVars, urlVars, cookieAtStart, loginVars, visited, page_url, sent, planVars, retval>>

\* lines 186-219
ManualLoginBegin ==
    /\ pc = "manual"
    /\ ~logged_in
    /\ \E resp \in UrlReplies : base_url' = BaseUrlOf(resp)
    /\ sent' = Append(sent, Prompt("base_url", task, 0))
    /\ visited' = visited \cup {"login"}
    /\ page_url' = "login_url"
    /\ bannerShown' = TRUE
    /\ elapsed' = 0
    /\ pc' = "polling"
    /\ UNCHANGED <<task, max_steps, reports, captureVars, gatewayVars, urlVars, cookieAtStart, cookieFile, replay, injected, logged_in,
                   fileWrites, planVars, retval>>

LoopConditionOffByOne(e) == e <= MANUAL_LOGIN_TIMEOUT

\* line 220: while time.time() - start_time < MANUAL_LOGIN_TIMEOUT
LoopCondition(e) == e < MANUAL_LOGIN_TIMEOUT

LoginProbeSavesEveryPass ==
    /\ pc = "polling"
    /\ LoopCondition(elapsed)
    /\ \E c \in CookieSignals, d \in DomSignals, saved \in BOOLEAN :
          /\ cookieFile' = IF saved THEN "storage_state" ELSE cookieFile
          /\ fileWrites' = IF saved THEN fileWrites + 1 ELSE fileWrites
          /\ IF is_logged_in(c, d)
             THEN /\ logged_in' = TRUE
                  /\ elapsed' = 0
                  /\ pc' = "task_url"
             ELSE /\ elapsed' = elapsed + POLL_INTERVAL
                  /\ UNCHANGED <<logged_in, pc>>
    /\ UNCHANGED <<task, max_steps, reports, captureVars, gatewayVars, urlVars, cookieAtStart, replay, injected, base_url, bannerShown,
                   visited, page_url, sent, planVars, retval>>

\* lines 220-232, one pass of the polling loop; saved: storage_state() and
\* the write of cookies.json went through (save_storage_state swallows a
\* failure).  start_time is dead once the loop is left.
LoginProbe ==
    /\ pc = "polling"
    /\ LoopCondition(elapsed)
    /\ \E c \in CookieSignals, d \in DomSignals, saved \in BOOLEAN :
          IF is_logged_in(c, d)
          THEN /\ cookieFile' = IF saved THEN "storage_state" ELSE cookieFile
               /\ fileWrites' = IF saved THEN fileWrites + 1 ELSE fileWrites
               /\ logged_in' = TRUE
               /\ elapsed' = 0
               /\ pc' = "task_url"
          ELSE /\ elapsed' = elapsed + POLL_INTERVAL
               /\ UNCHANGED <<cookieFile, fileWrites, logged_in, pc>>
    /\ UNCHANGED <<task, max_steps, reports, captureVars, gatewayVars, urlVars, cookieAtStart, replay, injected, base_url, bannerShown,
                   visited, page_url, sent, planVars, retval>>

LoginTimeoutProceeds ==
    /\ pc = "polling"
    /\ ~LoopCondition(elapsed)
    /\ ~logged_in
    /\ pc' = "task_url"
    /\ UNCHANGED <<task, max_steps, reports, captureVars, gatewayVars, urlVars, cookieAtStart, loginVars, visited, page_url, sent, planVars, retval>>

LoginTimeoutWithoutError ==
    /\ pc = "polling"
    /\ ~LoopCondition(elapsed)
    /\ ~logged_in
    /\ retval' = "results"
    /\ pc' = "returned"
    /\ UNCHANGED <<task, max_steps, reports, captureVars, gatewayVars, urlVars, cookieAtStart, loginVars, visited, page_url, sent, planVars>>

\* lines 220, 234-238
LoginTimeout ==
    /\ pc = "polling"
    /\ ~LoopCondition(elapsed)
    /\ ~logged_in
    /\ retval' = "login_timeout"
    /\ pc' = "returned"
    /\ UNCHANGED <<task, max_steps, reports, captureVars, gatewayVars, urlVars, cookieAtStart, loginVars, visited, page_url, sent, planVars>>

\* lines 240-274
TaskUrl ==
    /\ pc = "task_url"
    /\ \E resp \in UrlReplies :
          LET task_specific_url == clean_url(ReplyUrlText(resp)) IN
          page_url' = IF task_specific_url = "" THEN page_url ELSE task_specific_url
    /\ sent' = Append(sent, Prompt("task_url", task, 0))
    /\ visited' = visited \cup {"task"}
    /\ pc' = "plan_request"
    /\ UNCHANGED <<task, max_steps, reports, captureVars, gatewayVars, urlVars, cookieAtStart, loginVars, planVars, retval>>

\* lines 276-293
PlanRequest ==
    /\ pc = "plan_request"
    /\ sent' = Append(sent, Prompt("plan", task, 0))
    /\ \E resp \in PlanReplies :
          IF resp.form = "str" /\ ~resp.parses
          THEN /\ retval' = "ui_plan_not_parseable"
               /\ pc' = "returned"
               /\ UNCHANGED ui_plan
          ELSE /\ ui_plan' = NormalizePlan(resp)
               /\ pc' = "execute_ui_plan"
               /\ UNCHANGED retval
    /\ UNCHANGED <<task, max_steps, reports, captureVars, gatewayVars, urlVars, cookieAtStart, loginVars, visited, page_url, idx, attempts,
                   lastDrv,
                   result, results, lastReply, replExecs, execution_results>>

\* lines 295-299
FinishRun ==
    /\ pc = "finish"
    /\ retval' = "results"
    /\ pc' = "returned"
    /\ UNCHANGED <<task, max_steps, reports, captureVars, gatewayVars, urlVars, cookieAtStart, loginVars, visited, page_url, sent, planVars>>

\* main.py lines 56-61: Agent.run has returned, the report is written
WriteReport ==
    /\ pc = "returned"
    /\ reports' = reports + 1
    /\ pc' = "exit"
    /\ UNCHANGED <<task, max_steps, captureVars, gatewayVars, urlVars, cookieAtStart,
                   loginVars,
                   visited, page_url, sent, planVars, retval>>

(***************************************************************************)
(* Agent.execute_ui_plan                                                   *)
(***************************************************************************)
runVars == <<task, max_steps, reports, captureVars, gatewayVars, urlVars, cookieAtStart, loginVars, visited, page_url, retval>>

IsListAlways(plan) == TRUE

\* line 42: isinstance(ui_plan, list)
IsList(plan) == plan.islist

\* lines 41-45
EnterPlan ==
    /\ pc = "execute_ui_plan"
    /\ results' = <<>>
    /\ IF ~IsList(ui_plan)
       THEN /\ execution_results' = "ui_plan_not_list"
            /\ pc' = "finish"
            /\ UNCHANGED idx
       ELSE /\ idx' = 1
            /\ IF ui_plan.items = <<>>
               THEN execution_results' = "log" /\ pc' = "finish"
               ELSE pc' = "exec" /\ UNCHANGED execution_results
    /\ UNCHANGED <<runVars, sent, ui_plan, attempts, lastDrv, result, lastReply,
                   replExecs>>

\* lines 46-49 on a list element that is no dict: step.get raises
NormalizeRaises ==
    /\ pc = "exec"
    /\ ~ui_plan.items[idx].isobj
    /\ pc' = "crashed"
    /\ UNCHANGED <<runVars, sent, planVars>>

\* lines 52-107, one pass of the retry loop
Attempt ==
    /\ pc = "exec"
    /\ ui_plan.items[idx].isobj
    /\ \E drv \in StepDriverOutcomes(ui_plan.items[idx]) :
          LET out == AttemptStep(ui_plan.items[idx], result, drv) IN
          /\ result' = out.result
          /\ attempts' = Append(attempts, out.result)
          /\ lastDrv' = drv
          /\ pc' = IF LoopEnds(out, Len(attempts) + 1) THEN "append" ELSE "exec"
    /\ UNCHANGED <<runVars, sent, ui_plan, idx, results, lastReply, replExecs,
                   execution_results>>

\* the loop over the plan moves to the next step, or line 132 returns
NextStep ==
    /\ idx' = idx + 1
    /\ attempts' = <<>>
    /\ lastDrv' = NoneVal
    /\ result' = NoResult
    /\ lastReply' = NoReply
    /\ IF idx + 1 > Len(ui_plan.items)
       THEN execution_results' = "log" /\ pc' = "finish"
       ELSE pc' = "exec" /\ UNCHANGED execution_results

\* lines 109-112
AppendRecord ==
    /\ pc = "append"
    /\ results' = Append(results, StepRecord(idx, ui_plan.items[idx], result))
    /\ IF FailedResult(result)
       THEN /\ pc' = "recover"
            /\ UNCHANGED <<idx, attempts, lastDrv, result, execution_results,
                           lastReply>>
       ELSE NextStep
    /\ UNCHANGED <<runVars, sent, ui_plan, replExecs>>

\* lines 113-130; the prompt is built with task=""
Recover ==
    /\ pc = "recover"
    /\ sent' = Append(sent, Prompt("recovery", "", idx))
    /\ \E repl \in RecoveryReplies, drv \in {"found", "absent", "raise"} :
          LET repl_action == IF repl.isdict THEN repl.action ELSE NoneAction IN
          /\ IF repl_action.form \in {"str", "dict"}
             THEN /\ replExecs' = replExecs + 1
                  /\ IF ExecuteActionRaises(repl_action)
                     THEN /\ pc' = "crashed"
                          /\ lastReply' = repl
                          /\ UNCHANGED <<idx, attempts, lastDrv, result, results,
                                         execution_results>>
                     ELSE /\ results' = Append(results,
                                 ReplRecord(repl_action, ExecuteAction(repl_action, drv)))
                          /\ NextStep
             ELSE /\ NextStep
                  /\ UNCHANGED <<results, replExecs>>
    /\ UNCHANGED <<runVars, ui_plan>>

Next ==
    \/ Launch
    \/ CookieReplay
    \/ NoCookies
    \/ ManualLoginBegin
    \/ LoginProbe
    \/ LoginTimeout
    \/ TaskUrl
    \/ PlanRequest
    \/ FinishRun
    \/ WriteReport
    \/ EnterPlan
    \/ NormalizeRaises
    \/ Attempt
    \/ AppendRecord
    \/ Recover

Spec == Init /\ [][Next]_vars

(***************************************************************************)
(* execute_ui_plan on its own: the call of line 294 in a run that logged   *)
(* in by cookie replay, with any plan of Plans or a plan that is no list.  *)
(***************************************************************************)
InitPlan ==
    /\ pc = "execute_ui_plan"
    /\ task \in Tasks
    /\ cookieFile = "storage_state"
    /\ cookieAtStart = cookieFile
    /\ replay = "ok"
    /\ injected = FALSE
    /\ logged_in = TRUE
    /\ base_url = NoneVal
    /\ elapsed = 0
    /\ fileWrites = 0
    /\ bannerShown = FALSE
    /\ visited = {"start", "task"}
    /\ page_url = "https://linear.app"
    /\ sent = << Prompt("task_url", task, 0), Prompt("plan", task, 0) >>
    /\ ui_plan \in {[islist |-> TRUE, items |-> p] : p \in Plans} \cup {NoPlan}
    /\ idx = 0
    /\ attempts = <<>>
    /\ lastDrv = NoneVal
    /\ result = NoResult
    /\ results = <<>>
    /\ lastReply = NoReply
    /\ replExecs = 0
    /\ execution_results = "none"
    /\ retval = "none"
    /\ reports = 0
    /\ CaptureIdle
    /\ max_steps = DefaultMaxSteps
    /\ GatewayIdle
    /\ UrlIdle

NextPlan ==
    \/ EnterPlan
    \/ NormalizeRaises
    \/ Attempt
    \/ AppendRecord
    \/ Recover
    \/ FinishRun

SpecPlan == InitPlan /\ [][NextPlan]_vars

(***************************************************************************)
(* execute_ui_plan under a configured max_steps: the call of line 294 for  *)
(* an agent built from a config that sets max_steps, or leaves the         *)
(* default, with plans of waits and hovers long enough to pass the cap.    *)
(***************************************************************************)
MaxCapPlanLen == 3

CapSteps ==
    {step \in StepUniverse : ~step.isobj \/ StepType(step) \in {"wait", "hover"}}

CapPlans == SeqsUpTo(CapSteps, MaxCapPlanLen)

\* config.get("max_steps", 20)
MaxStepsConfigs == {1, 2, DefaultMaxSteps}

InitCap ==
    /\ pc = "execute_ui_plan"
    /\ task \in Tasks
    /\ cookieFile = "storage_state"
    /\ cookieAtStart = cookieFile
    /\ replay = "ok"
    /\ injected = FALSE
    /\ logged_in = TRUE
    /\ base_url = NoneVal
    /\ elapsed = 0
    /\ fileWrites = 0
    /\ bannerShown = FALSE
    /\ visited = {"start", "task"}
    /\ page_url = "https://linear.app"
    /\ sent = << Prompt("task_url", task, 0), Prompt("plan", task, 0) >>
    /\ ui_plan \in {[islist |-> TRUE, items |-> p] : p \in CapPlans}
    /\ idx = 0
    /\ attempts = <<>>
    /\ lastDrv = NoneVal
    /\ result = NoResult
    /\ results = <<>>
    /\ lastReply = NoReply
    /\ replExecs = 0
    /\ execution_results = "none"
    /\ retval = "none"
    /\ reports = 0
    /\ CaptureIdle
    /\ max_steps \in MaxStepsConfigs
    /\ GatewayIdle
    /\ UrlIdle

SpecCap == InitCap /\ [][NextPlan]_vars

(***************************************************************************)
(* GeminiClient.plan_action on its own: one call, with every outcome of    *)
(* the transport and every response body of Bodies.                        *)
(***************************************************************************)
nonCaptureVars == <<task, max_steps, reports, cookieAtStart, loginVars, visited, page_url,
                    sent, planVars, retval>>

agentVars == <<nonCaptureVars, captureVars>>

\* the state of the agent before Agent.run has done anything
AgentFresh ==
    /\ task \in Tasks
    /\ cookieFile = "absent"
    /\ cookieAtStart = cookieFile
    /\ replay = "none"
    /\ injected = FALSE
    /\ logged_in = FALSE
    /\ base_url = NoneVal
    /\ elapsed = 0
    /\ fileWrites = 0
    /\ bannerShown = FALSE
    /\ visited = {}
    /\ page_url = "about:blank"
    /\ sent = <<>>
    /\ ui_plan = NoPlan
    /\ idx = 0
    /\ attempts = <<>>
    /\ lastDrv = NoneVal
    /\ result = NoResult
    /\ results = <<>>
    /\ lastReply = NoReply
    /\ replExecs = 0
    /\ execution_results = "none"
    /\ retval = "none"
    /\ reports = 0
    /\ CaptureIdle
    /\ max_steps = DefaultMaxSteps

InitGateway ==
    /\ pc = "post"
    /\ AgentFresh
    /\ GatewayIdle
    /\ UrlIdle

LastAttemptOffByOne(a) == a = 2

\* line 55
LastAttempt(a) == a = 1

\* lines 47-58, one pass of the send loop
Post ==
    /\ pc = "post"
    /\ \E outcome \in TransportOutcomes :
          /\ transport' = Append(transport, outcome)
          /\ IF outcome = "ok"
             THEN /\ \E body \in Bodies : data' = body
                  /\ pc' = "parse"
                  /\ UNCHANGED <<attempt, reply>>
             ELSE IF LastAttempt(attempt)
                  THEN /\ reply' = ErrorReply("HTTP error after retry")
                       /\ pc' = "gw_returned"
                       /\ UNCHANGED <<attempt, data>>
                  ELSE /\ attempt' = attempt + 1
                       /\ UNCHANGED <<pc, data, reply>>
    /\ UNCHANGED <<response_text, agentVars, urlVars>>

\* lines 60-87
ParseResponse ==
    /\ pc = "parse"
    /\ IF BodyRaises(data)
       THEN /\ pc' = "gw_raised"
            /\ UNCHANGED <<response_text, reply>>
       ELSE /\ response_text' = IF data.kind = "candidates" THEN Strip(data.text) ELSE <<>>
            /\ reply' = ParseBody(data)
            /\ pc' = "gw_returned"
    /\ UNCHANGED <<attempt, transport, data, agentVars, urlVars>>

NextGateway ==
    \/ Post
    \/ ParseResponse

SpecGateway == InitGateway /\ [][NextGateway]_vars

(***************************************************************************)
(* Agent._clean_url on its own.  A URL text is a sequence of tokens:       *)
(* "http" and "HTTP" the four letters, "s" the letter, "://" the scheme    *)
(* separator, "host" a run of other letters, dots and slashes, "sp" white  *)
(* space, "quote" one of the characters ` ' ", "bslash" a backslash, and   *)
(* "pct20" the text %20.                                                   *)
(***************************************************************************)
MaxUrlLen == 4

UrlTokens == {"http", "HTTP", "s", "://", "host", "sp", "quote", "bslash"}

UrlTexts == SeqsUpTo(UrlTokens, MaxUrlLen)

RECURSIVE LStripQuotes(_)
LStripQuotes(s) == IF s # <<>> /\ Head(s) = "quote" THEN LStripQuotes(Tail(s)) ELSE s

RECURSIVE RStripQuotes(_)
RStripQuotes(s) ==
    IF s # <<>> /\ s[Len(s)] = "quote"
    THEN RStripQuotes(SubSeq(s, 1, Len(s) - 1)) ELSE s

\* str.strip("`'\"")
StripQuotes(s) == RStripQuotes(LStripQuotes(s))

\* str.lower()
LowerToken(tok) == IF tok = "HTTP" THEN "http" ELSE tok

\* line 29: url.lower().startswith("http")
StartsWithHttpPrefix(s) == s # <<>> /\ LowerToken(s[1]) = "http"

IsNotBackslash(tok) == tok # "bslash"

\* line 32
EscapeSpaces(s) == [i \in 1..Len(s) |-> IF s[i] = "sp" THEN "pct20" ELSE s[i]]

clean_url_text(u) ==
    IF u = <<>> THEN <<>>
    ELSE LET stripped == StripQuotes(Strip(u)) IN
         IF ~StartsWithHttpPrefix(stripped) THEN <<>>
         ELSE SelectSeq(EscapeSpaces(stripped), IsNotBackslash)

InitUrl ==
    /\ pc = "clean_url"
    /\ AgentFresh
    /\ GatewayIdle
    /\ url_arg \in UrlTexts
    /\ cleaned_url = <<>>

\* lines 24-33
CleanUrl ==
    /\ pc = "clean_url"
    /\ cleaned_url' = clean_url_text(url_arg)
    /\ pc' = "url_returned"
    /\ UNCHANGED <<url_arg, agentVars, gatewayVars>>

NextUrl == CleanUrl

SpecUrl == InitUrl /\ [][NextUrl]_vars

(***************************************************************************)
(* Properties of execute_ui_plan, checked under SpecPlan                   *)
(***************************************************************************)
CarriesStatusOrNoError(r) == r.isdict /\ (r.status # NoneVal \/ r.error = NoneVal)

CarriesError(r) == r.isdict /\ r.error # NoneVal /\ r.status = NoneVal

StepRecordsOf(i) == {k \in 1..Len(results) : IsStepRecord(results[k])
                                             /\ results[k].step_index = i - 1}

RecoveryRequestsOf(i) == {k \in 1..Len(sent) : sent[k].kind = "recovery"
                                               /\ sent[k].idx = i}

CurrentStep == ui_plan.items[idx]

InStep == pc \in {"exec", "append", "recover"}

C1_Bounded ==
    /\ Len(attempts) <= max_retries + 1
    /\ \A k \in 1..Len(attempts) :
          k < Len(attempts) => ~CarriesStatusOrNoError(attempts[k])
    /\ (pc = "exec" /\ attempts # <<>>) =>
          ~CarriesStatusOrNoError(attempts[Len(attempts)])

C1_TwoErrorsThenSuccess ==
    /\ pc = "append"
    /\ Len(attempts) = 3
    /\ CarriesError(attempts[1])
    /\ CarriesError(attempts[2])
    /\ CarriesStatusOrNoError(attempts[3])

C1_ScenarioD ==
    C1_TwoErrorsThenSuccess =>
        /\ StepRecordsOf(idx) = {}
        /\ RecoveryRequestsOf(idx) = {}
        /\ results' = Append(results, StepRecord(idx, CurrentStep, attempts[3]))
        /\ sent' = sent
        /\ pc' # "recover"
        /\ idx' = idx + 1

\* C1: every step gets at most max_retries + 1 attempts, no attempt follows
\* one whose result carries a status or no error, and a step whose first two
\* attempts give an error and whose third succeeds has exactly 3 attempts,
\* is logged once with the success result, and sends no recovery request.
C1_RetryLoop == [](C1_Bounded) /\ [][C1_ScenarioD]_vars

C1_Witness == C1_TwoErrorsThenSuccess /\ StepType(CurrentStep) = "click"

FlatReplyHandled == FlatActionReply(lastReply)

\* C2: a step whose final result is an error sends exactly one recovery
\* request, and when the reply is the single ActionStep object the recovery
\* prompt asks for, the corrective action is executed once and one record
\* with the corrective action and its result follows the failed step's record.
C2_FlatReplyIsExecutedAndLogged ==
    FlatReplyHandled =>
        /\ pc # "crashed"
        /\ Cardinality(RecoveryRequestsOf(idx)) = 1
        /\ Len(results) >= 2
        /\ IsStepRecord(results[Len(results) - 1])
        /\ results[Len(results) - 1].step_index = idx - 1
        /\ ~IsStepRecord(results[Len(results)])
        /\ results[Len(results)].repl_step = lastReply.action

LacksClickTarget(step) ==
    /\ step.isobj
    /\ StepType(step) = "click"
    /\ ~Truthy(StepSelector(step))
    /\ ~Truthy(step.text)

LacksTarget(step) ==
    /\ step.isobj
    /\ \/ StepType(step) \in {"fill", "type", "set_value"} /\ ~Truthy(StepSelector(step))
       \/ LacksClickTarget(step)
       \/ /\ StepType(step) \in {"select", "select_option"}
          /\ (~Truthy(StepSelector(step)) \/ ~step.has_value)
       \/ StepType(step) = "hover" /\ ~Truthy(StepSelector(step))

Processed(i) == i < idx \/ (i = idx /\ pc \in {"recover", "crashed"})

\* C3, for the kinds that have a required target (select, hover and click;
\* a fill without selector falls back to the first input of the page):
\* a step that lacks its target ends with an error-tagged result and
\* is logged with exactly one non-recovery record.
C3_MissingTargetIsError ==
    \A i \in 1..Len(ui_plan.items) :
        (Processed(i) /\ LacksTarget(ui_plan.items[i])
            /\ StepType(ui_plan.items[i]) \notin {"fill", "type", "set_value"}) =>
            /\ Cardinality(StepRecordsOf(i)) = 1
            /\ \A k \in StepRecordsOf(i) : CarriesError(results[k].result)

\* C4: every processed step is logged with exactly one terminal result, a
\* record in which exactly one of status / error is set.
C4_OneTerminalResult ==
    \A i \in 1..Len(ui_plan.items) :
        (Processed(i) /\ ui_plan.items[i].isobj) =>
            /\ Cardinality(StepRecordsOf(i)) = 1
            /\ \A k \in StepRecordsOf(i) :
                  /\ results[k].result.isdict
                  /\ (results[k].result.status # NoneVal)
                        # (results[k].result.error # NoneVal)

ClickWithSelector(step) ==
    step.isobj /\ StepType(step) = "click" /\ Truthy(StepSelector(step))

C5_NoElementOnFirstAttempt ==
    /\ InStep
    /\ ClickWithSelector(CurrentStep)
    /\ Len(attempts) = 1
    /\ lastDrv = "absent"

C5_State ==
    C5_NoElementOnFirstAttempt =>
        /\ attempts[1] = StatusResult("no_element")
        /\ pc = "append"

C5_Step ==
    C5_NoElementOnFirstAttempt =>
        /\ StepRecordsOf(idx) = {}
        /\ RecoveryRequestsOf(idx) = {}
        /\ results' = Append(results, StepRecord(idx, CurrentStep, StatusResult("no_element")))
        /\ sent' = sent
        /\ pc' # "recover"
        /\ idx' = idx + 1

\* C5: a click whose selector matches no element gets the status no_element
\* on its first attempt, which ends the retry loop: one attempt, one record
\* for the step, no recovery request.
C5_NoElementIsSuccess == [](C5_State) /\ [][C5_Step]_vars

C5_Witness == C5_NoElementOnFirstAttempt /\ pc = "append"

(***************************************************************************)
(* Properties of Agent.run, checked under Spec                             *)
(***************************************************************************)
Sent(kind) == \E k \in 1..Len(sent) : sent[k].kind = kind

InPlanExecution == pc \in {"execute_ui_plan", "exec", "append", "recover", "finish"}

ManualLoginDone == bannerShown /\ Sent("base_url") /\ "login" \in visited

\* C6: no plan is requested and no plan step is executed unless logged_in
\* has become true, by cookie replay or by a successful manual-login probe.
C6_AuthenticatedBeforePlan ==
    /\ (Sent("plan") \/ pc = "plan_request" \/ InPlanExecution
           \/ attempts # <<>> \/ results # <<>> \/ execution_results # "none")
          => logged_in
    /\ logged_in => (replay = "ok" \/ (replay # "ok" /\ ManualLoginDone))

C6_Witness == logged_in /\ Sent("plan") /\ results # <<>> /\ replay # "ok"

\* C7: without a cookie file and without a successful probe within the
\* timeout the run returns login_timeout; no task-URL request, no plan
\* request, no plan step, no session file.
C7_LoginTimeout ==
    (cookieAtStart = "absent" /\ pc = "returned" /\ ~logged_in) =>
        /\ retval = "login_timeout"
        /\ elapsed >= MANUAL_LOGIN_TIMEOUT
        /\ ~Sent("task_url")
        /\ ~Sent("plan")
        /\ "task" \notin visited
        /\ results = <<>>
        /\ attempts = <<>>
        /\ execution_results = "none"
        /\ fileWrites = 0
        /\ cookieFile = "absent"

C7_Witness == cookieAtStart = "absent" /\ pc = "returned" /\ ~logged_in

\* C8: after a successful probe on replayed cookies the session is
\* authenticated and the run goes on to the task-URL stage; the manual-login
\* affordance is never shown, no base URL is asked for, no /login page opened.
C8_CookieReplaySkipsManualLogin ==
    replay = "ok" =>
        /\ cookieAtStart # "absent"
        /\ logged_in
        /\ ~bannerShown
        /\ ~Sent("base_url")
        /\ "login" \notin visited
        /\ pc \notin {"manual", "polling"}
        /\ retval # "login_timeout"
        /\ pc # "task_url" => Sent("task_url")

C8_Witness == replay = "ok" /\ Sent("task_url") /\ "task" \in visited

\* C9: after a failed probe on replayed cookies the cookie file is deleted
\* before the manual-login flow starts, and that flow is entered in this run.
C9_StaleCookiesDeleted ==
    replay = "failed" =>
        /\ cookieAtStart # "absent"
        /\ pc = "manual" => (cookieFile = "absent" /\ ~bannerShown /\ ~Sent("base_url"))
        /\ pc # "manual" => ManualLoginDone
        /\ fileWrites = 0 => cookieFile = "absent"

C9_Witness == replay = "failed" /\ pc = "polling" /\ ManualLoginDone

C10_State ==
    /\ fileWrites <= 1
    /\ fileWrites = 1 => (logged_in /\ replay # "ok" /\ ManualLoginDone)
    /\ retval = "login_timeout" => fileWrites = 0

C10_Step ==
    fileWrites' # fileWrites =>
        /\ fileWrites' = fileWrites + 1
        /\ pc = "polling"
        /\ ~logged_in
        /\ logged_in'
        /\ pc' = "task_url"

\* C10: the session file is written at most once in a run, and only as part
\* of the successful manual-login probe: not after cookie replay, not on
\* login timeout, not during plan execution.
C10_SessionWrittenOnce == [](C10_State) /\ [][C10_Step]_vars

C10_Witness == fileWrites = 1 /\ pc = "append"

(***************************************************************************)
(* Properties of GeminiClient.plan_action, checked under SpecGateway       *)
(***************************************************************************)
GatewayReturned == pc = "gw_returned"

GatewayLeft == pc \in {"gw_returned", "gw_raised"}

C11_State ==
    /\ Len(transport) <= 2
    /\ Len(transport) = 2 => transport[1] = "fail"
    /\ transport = <<"fail">> => (pc = "post" /\ reply = NotReturned)
    /\ transport = <<"fail", "fail">> => (GatewayReturned /\ reply.kind = "error")

C11_Step ==
    transport' # transport =>
        /\ transport = <<>> \/ transport = <<"fail">>
        /\ Len(transport') = Len(transport) + 1

\* C11: plan_action sends the prompt at most twice; after a first transport
\* failure it is back at the send, which it makes once more; after a second
\* failure it returns a result with an error key and does not raise; a send
\* that succeeded is never followed by another send.
C11_RetryOnce == [](C11_State) /\ [][C11_Step]_vars

C11_Witness == GatewayReturned /\ transport = <<"fail", "fail">> /\ reply.kind = "error"

Spans(s) == {sp \in (1..Len(s)) \X (1..Len(s)) : sp[1] <= sp[2]}

IsJsonStructure(s) ==
    /\ s[1] \in {"{", "["}
    /\ s[Len(s)] \in {"}", "]"}
    /\ IsJsonValue(SelectSeq(s, IsNotSpace))

\* the spans of the text that are a well-formed JSON object or array
JsonStructureSpans(s) == {sp \in Spans(s) : IsJsonStructure(SubSeq(s, sp[1], sp[2]))}

FirstJsonStructure(s) ==
    LET first == CHOOSE sp \in JsonStructureSpans(s) :
                     \A other \in JsonStructureSpans(s) : sp[1] <= other[1]
    IN SelectSeq(SubSeq(s, first[1], first[2]), IsNotSpace)

TextOfBody == Strip(data.text)

\* C12: when the response text contains a well-formed JSON object or array,
\* whatever surrounds it, plan_action returns exactly the first such
\* structure of the text.
C12_FirstJsonStructureIsExtracted ==
    (GatewayLeft /\ data.kind = "candidates" /\ JsonStructureSpans(TextOfBody) # {}) =>
        /\ GatewayReturned
        /\ reply = JsonReply(FirstJsonStructure(TextOfBody))

\* no piece of the text is JSON, as it stands or after the cleanup of quotes
\* and bare keys
NothingParses(s) ==
    \A sp \in Spans(s) :
        /\ ~json_loads(SubSeq(s, sp[1], sp[2])).ok
        /\ ~json_loads(Cleanup(SubSeq(s, sp[1], sp[2]))).ok

C13_Case == GatewayLeft /\ data.kind = "candidates" /\ TextOfBody # <<>>
               /\ NothingParses(TextOfBody)

\* C13: for a non-empty response text of which nothing parses as JSON,
\* strictly or after the cleanup, plan_action returns {raw_text: text} with
\* the text unchanged, and does not raise.
C13_RawTextWrapped ==
    C13_Case =>
        /\ GatewayReturned
        /\ reply = GatewayReply("raw_text", NoneVal, TextOfBody)

C13_Witness == C13_Case /\ Len(TextOfBody) >= 2 /\ "{" \in {TextOfBody[i] : i \in 1..Len(TextOfBody)}

EmptyCandidateList == data.kind = "empty_candidates"

EmptyResponseText == data.kind = "candidates" /\ TextOfBody = <<>>

UnparseableResponseText ==
    data.kind = "candidates" /\ TextOfBody # <<>> /\ NothingParses(TextOfBody)

\* C14 as stated: an empty candidate list, an empty response text and an
\* unparseable response text each make plan_action return a record with an
\* error key.
C14_FailuresCarryErrorKey ==
    (GatewayLeft /\ (EmptyCandidateList \/ EmptyResponseText \/ UnparseableResponseText)) =>
        /\ GatewayReturned
        /\ reply.kind = "error"

\* C14 amended: an empty candidate list and an empty response text make
\* plan_action return a record with an error key; an unparseable response
\* text makes it return the raw-text carrier, which has no error key.
C14_EmptyIsErrorUnparseableIsRawText ==
    /\ (GatewayLeft /\ (EmptyCandidateList \/ EmptyResponseText)) =>
          (GatewayReturned /\ reply.kind = "error" /\ reply.error # NoneVal)
    /\ (GatewayLeft /\ UnparseableResponseText) =>
          (GatewayReturned /\ reply.kind = "raw_text" /\ reply.error = NoneVal)

C14_Witness == GatewayReturned /\ EmptyResponseText /\ data.text # <<>>

(***************************************************************************)
(* Properties of the callers of plan_action, checked under Spec            *)
(***************************************************************************)
\* C15: a response that carries an error key is not acted on.  Of the
\* replies of the model, the one with an error key and another key is the
\* reply to a URL prompt whose url key is UrlOfErrorReply: the run never
\* takes its base URL from it and never navigates to it.
C15_ErrorKeyIsAuthoritative ==
    /\ base_url # UrlOfErrorReply
    /\ page_url # UrlOfErrorReply

(***************************************************************************)
(* Properties of Agent._clean_url, checked under SpecUrl                   *)
(***************************************************************************)
\* the text begins with http:// or https://, in any case of the letters
HasHttpScheme(s) ==
    /\ s # <<>>
    /\ LowerToken(s[1]) = "http"
    /\ \/ Len(s) >= 2 /\ s[2] = "://"
       \/ Len(s) >= 3 /\ s[2] = "s" /\ s[3] = "://"

\* C16: for an input that lacks an http-family scheme _clean_url returns the
\* empty string.  The input is taken without the white space and quote
\* characters around it, which _clean_url is there to remove.
C16_NoSchemeIsRejected ==
    (pc = "url_returned" /\ ~HasHttpScheme(StripQuotes(Strip(url_arg)))) =>
        cleaned_url = <<>>

(***************************************************************************)
(* Properties of execute_ui_plan under a configured cap, checked under     *)
(* SpecCap                                                                 *)
(***************************************************************************)
\* every step that went through the retry loop has its record in the log
StepsExecuted == Len(SelectSeq(results, IsStepRecord))

\* C17: the number of plan steps executed never exceeds the configured
\* max_steps, whatever the length of the plan.
C17_StepsCappedByMaxSteps == StepsExecuted <= max_steps

(***************************************************************************)
(* More properties of execute_ui_plan, checked under SpecPlan              *)
(***************************************************************************)
NoRecoverySent == \A k \in 1..Len(sent) : sent[k].kind # "recovery"

C18_State ==
    ~ui_plan.islist =>
        /\ pc \in {"execute_ui_plan", "finish", "returned"}
        /\ pc # "execute_ui_plan" => execution_results = "ui_plan_not_list"
        /\ results = <<>>
        /\ attempts = <<>>
        /\ lastDrv = NoneVal
        /\ replExecs = 0
        /\ NoRecoverySent

C18_Step ==
    (pc = "execute_ui_plan" /\ ~ui_plan.islist) =>
        (pc' = "finish" /\ execution_results' = "ui_plan_not_list")

\* C18: a plan that is not a list makes execute_ui_plan return the error
\* ui_plan_not_list in its first step: no action is executed, no recovery
\* request is sent, no step record is produced.
C18_NotAListShortCircuits == [](C18_State) /\ [][C18_Step]_vars

C18_Witness == ~ui_plan.islist /\ pc = "returned" /\ execution_results = "ui_plan_not_list"

\* the latest pass of the retry loop ended in a failure of the driver: it
\* raised, or page.fill / select_option / hover found no element for the
\* selector, which raises as well
DriverFailedInLastPass ==
    /\ pc \in {"exec", "append", "recover", "crashed"}
    /\ attempts # <<>>
    /\ \/ lastDrv = "raise"
       \/ /\ lastDrv = "absent"
          /\ StepType(CurrentStep) \in {"select", "select_option", "hover",
                                        "fill", "type", "set_value"}
          /\ ~LacksTarget(CurrentStep)

C19_State ==
    /\ DriverFailedInLastPass => CarriesError(attempts[Len(attempts)])
    /\ pc = "crashed" => (~CurrentStep.isobj \/ FlatActionReply(lastReply))

C19_Step ==
    /\ (pc = "exec" /\ attempts' # attempts /\ DriverFailedInLastPass') =>
          (pc' # "crashed" /\ CarriesError(result'))
    /\ (pc = "recover" /\ replExecs' # replExecs /\ ~FlatActionReply(lastReply')) =>
          /\ pc' # "crashed"
          /\ Len(results') = Len(results) + 1
          /\ ~IsStepRecord(results'[Len(results')])
          /\ results'[Len(results')].repl_result.isdict

\* C19: a failure of the driver while an action is executed, by
\* execute_action or by the select and hover calls of execute_ui_plan,
\* becomes a result with an error key; the exceptions that do leave
\* execute_ui_plan are not failures of the driver.
C19_DriverFailureIsErrorResult == [](C19_State) /\ [][C19_Step]_vars

C19_Witness ==
    /\ DriverFailedInLastPass
    /\ lastDrv = "raise"
    /\ pc = "recover"
    /\ StepType(CurrentStep) = "hover"

(***************************************************************************)
(* Properties of a whole run, main included, checked under Spec            *)
(***************************************************************************)
\* C20: whatever the planner returns and whatever the driver does, the run
\* ends with one report written, and no exception leaves Agent.run.
C20_RunEndsWithOneReport ==
    /\ pc # "crashed"
    /\ reports <= 1
    /\ pc = "exit" => reports = 1

(***************************************************************************)
(* The State Recorder alone: capture and _capture_unique_state called in   *)
(* any order with any label while the page changes underneath.             *)
(***************************************************************************)
InitCapture ==
    /\ pc = "capture"
    /\ AgentFresh
    /\ GatewayIdle
    /\ UrlIdle

\* playwright_controller.py 40-55: one call of capture(label)
Capture ==
    /\ pc = "capture"
    /\ CaptureCallsMade < MaxCaptureCalls
    /\ \E label \in Labels, domOk \in BOOLEAN, shotOk \in BOOLEAN :
         LET call == CaptureCall(captured_names, label, page_dom, domOk, shotOk)
         IN /\ captured_names' = call.names
            /\ captures' = [captures EXCEPT ![label] = Append(@, call.ret)]
    /\ UNCHANGED <<last_dom_snapshot, page_dom>>
    /\ UNCHANGED <<pc, nonCaptureVars, gatewayVars, urlVars>>

\* agent.py 134-146: one call of _capture_unique_state(label); contentOk
\* says whether its own page.content() went through
CaptureUniqueState ==
    /\ pc = "capture"
    /\ CaptureCallsMade < MaxCaptureCalls
    /\ \E label \in Labels, contentOk \in BOOLEAN, domOk \in BOOLEAN, shotOk \in BOOLEAN :
         IF contentOk /\ last_dom_snapshot # page_dom
         THEN LET call == CaptureCall(captured_names, label, page_dom, domOk, shotOk)
              IN /\ last_dom_snapshot' = page_dom
                 /\ captured_names' = call.names
                 /\ captures' = [captures EXCEPT ![label] = Append(@, call.ret)]
         ELSE UNCHANGED <<last_dom_snapshot, captured_names, captures>>
    /\ UNCHANGED page_dom
    /\ UNCHANGED <<pc, nonCaptureVars, gatewayVars, urlVars>>

\* the page under observation changes
DomChanges ==
    /\ pc = "capture"
    /\ \E dom \in Doms \ {page_dom} : page_dom' = dom
    /\ UNCHANGED <<captured_names, last_dom_snapshot, captures>>
    /\ UNCHANGED <<pc, nonCaptureVars, gatewayVars, urlVars>>

NextCapture ==
    \/ Capture
    \/ CaptureUniqueState
    \/ DomChanges

SpecCapture == InitCapture /\ [][NextCapture]_vars

\* C21: a second and any later call of capture for one label returns the
\* placeholder ("", none), and only the first call for a label touches the
\* driver.
C21_CaptureIdempotentPerLabel ==
    \A label \in Labels :
        \A k \in 1..Len(captures[label]) :
            /\ k > 1 => captures[label][k] = Placeholder
            /\ captures[label][k].touches > 0 => k = 1

\* a label captured twice: the first call went to the driver
C21_Witness ==
    \E label \in Labels :
        /\ Len(captures[label]) >= 2
        /\ captures[label][1].touches = 2
        /\ captures[label][2] = Placeholder

IsPrefix(s, t) == Len(s) <= Len(t) /\ SubSeq(t, 1, Len(s)) = s

\* the step records of the log are the plan's steps, in the plan's order
C22_State ==
    \A k \in 1..Len(results) :
        IsStepRecord(results[k]) =>
            /\ results[k].step_index + 1 \in 1..Len(ui_plan.items)
            /\ results[k].step = ui_plan.items[results[k].step_index + 1]
            /\ \A j \in 1..(k - 1) :
                   IsStepRecord(results[j]) => results[j].step_index < results[k].step_index

\* the log only grows at its end and the position in the plan never goes back
C22_Step ==
    /\ IsPrefix(results, results')
    /\ idx' >= idx

\* C22: the execution log is append-only and ordered: no entry already in
\* the log is rewritten or removed, steps are executed from left to right,
\* and the step_index of the non-recovery records is strictly increasing.
C22_LogAppendOnlyAndOrdered == [](C22_State) /\ [][C22_Step]_vars

\* two step records with a recovery record between them
C22_Witness ==
    /\ Len(results) = 3
    /\ IsStepRecord(results[1])
    /\ ~IsStepRecord(results[2])
    /\ IsStepRecord(results[3])
    /\ results[1].step_index < results[3].step_index

\* C25: every recovery prompt is built from the run's task, the failed
\* step, its final result and the DOM: the task field of each recovery
\* prompt sent to the planner equals the task of the run.
C25_RecoveryPromptCarriesTask ==
    \A k \in 1..Len(sent) :
        sent[k].kind = "recovery" => sent[k].task = task

\* C26: session persistence round-trips: when a run starts with the file a
\* previous run's save_storage_state wrote, the cookie-replay path accepts
\* it and its cookies are injected into the browser before the probe.
C26_SavedSessionIsReplayed ==
    (cookieAtStart = "storage_state" /\ replay # "none") => injected

AllStepObjects == ui_plan.islist /\ \A i \in 1..Len(ui_plan.items) : ui_plan.items[i].isobj

ExecutionOver == pc \in {"finish", "returned", "crashed"}

\* C27: plan execution never stops early: when the execution of a list of
\* step objects is over, every step has exactly one non-recovery record,
\* whatever errors, recovery failures or verdicts occurred, and the number
\* of non-recovery records equals the length of the plan.
C27_EveryStepGetsOneRecord ==
    (AllStepObjects /\ ExecutionOver) =>
        /\ \A i \in 1..Len(ui_plan.items) : Cardinality(StepRecordsOf(i)) = 1
        /\ StepsExecuted = Len(ui_plan.items)

(***************************************************************************)
(* The Session Manager alone: the run up to the end of the login stage.    *)
(* Agent.run is one thread of straight-line code, so a step of the polling *)
(* loop that can be taken is taken: weak fairness on the steps of the      *)
(* manual-login flow.                                                      *)
(***************************************************************************)
NextLogin ==
    \/ Launch
    \/ CookieReplay
    \/ NoCookies
    \/ ManualLoginBegin
    \/ LoginProbe
    \/ LoginTimeout

SpecLogin ==
    /\ Init
    /\ [][NextLogin]_vars
    /\ WF_vars(ManualLoginBegin)
    /\ WF_vars(LoginProbe)
    /\ WF_vars(LoginTimeout)

InManualLogin == pc \in {"manual", "polling"}

Authenticated == pc = "task_url" /\ logged_in

LoginTimedOut == pc = "returned" /\ retval = "login_timeout" /\ ~logged_in

\* the probes made so far in the polling loop, all of them unsuccessful
ProbesMade == elapsed \div POLL_INTERVAL

\* the statement as written: the successful probe has persisted the session
C23_SuccessfulProbePersists ==
    (Authenticated /\ ManualLoginDone) =>
        (fileWrites = 1 /\ cookieFile = "storage_state")

C23_State ==
    /\ pc = "polling" =>
          /\ ~logged_in
          /\ ProbesMade <= MANUAL_LOGIN_TIMEOUT \div POLL_INTERVAL
    /\ (pc \notin {"start", "login"} /\ ~InManualLogin) => (Authenticated \/ LoginTimedOut)
    /\ (Authenticated /\ ManualLoginDone) =>
          \/ fileWrites = 1 /\ cookieFile = "storage_state"
          \/ fileWrites = 0 /\ cookieFile = "absent"
    /\ LoginTimedOut => (~LoopCondition(elapsed) /\ fileWrites = 0)

C23_Step ==
    /\ (pc = "polling" /\ logged_in') => (Authenticated' /\ fileWrites' <= fileWrites + 1)
    /\ (pc = "polling" /\ pc' = "polling") => (ProbesMade' = ProbesMade + 1 /\ fileWrites' = fileWrites)
    /\ (pc = "polling" /\ pc' = "returned") => (~LoopCondition(elapsed) /\ LoginTimedOut')
    /\ ~InManualLogin => (logged_in' = logged_in \/ pc = "login")

\* C23 (amended): once the manual-login flow is entered it always ends in
\* one of two outcomes: the first successful probe calls for the session to
\* be saved (a failed write is tolerated) and makes the session
\* authenticated, with no further probe; or the timeout elapses with no
\* successful probe and the run returns login_timeout.  The number of
\* probes is at most timeout / polling interval.
C23_ManualLoginTerminates ==
    /\ [](C23_State)
    /\ [][C23_Step]_vars
    /\ (InManualLogin ~> (Authenticated \/ LoginTimedOut))

\* the last probe the timeout allows has been made, without success
C23_Witness ==
    /\ pc = "polling"
    /\ ProbesMade = MANUAL_LOGIN_TIMEOUT \div POLL_INTERVAL
    /\ ~LoopCondition(elapsed)

(***************************************************************************)
(* execute_ui_plan on plans whose steps spell their fields with any of the *)
(* keys lines 45-48 read: action or type, selector or sel or query, value  *)
(* or text or fill.                                                        *)
(***************************************************************************)
MaxAliasPlanLen == 1

ActionKeys == {"action", "type"}

SelectorKeys == {"selector", "sel", "query"}

ValueKeys == {"value", "text", "fill"}

\* the step c of StepUniverse, written with the keys ka, ks and kv; a step
\* without a value keeps its text key
Alias(c, ka, ks, kv) ==
    [isobj |-> TRUE,
     action |-> IF ka = "action" THEN c.action ELSE NoneVal,
     type |-> IF ka = "type" THEN c.action ELSE NoneVal,
     selector |-> IF ks = "selector" THEN c.selector ELSE NoneVal,
     sel |-> IF ks = "sel" THEN c.selector ELSE NoneVal,
     query |-> IF ks = "query" THEN c.selector ELSE NoneVal,
     value |-> IF kv = "value" THEN c.value ELSE NoneVal,
     has_value |-> kv = "value" /\ c.has_value,
     text |-> IF kv = "text" /\ c.has_value THEN c.value ELSE c.text,
     fill |-> IF kv = "fill" THEN c.value ELSE NoneVal,
     by_text |-> c.by_text]

AliasedSteps ==
    {Alias(c, ka, ks, kv) : c \in {u \in StepUniverse : u.isobj},
                            ka \in ActionKeys, ks \in SelectorKeys, kv \in ValueKeys}
    \cup {NonObjStep}

AliasPlans == {p \in SeqsUpTo(AliasedSteps, MaxAliasPlanLen) : p # <<>>}

InitAlias ==
    /\ pc = "execute_ui_plan"
    /\ task \in Tasks
    /\ cookieFile = "storage_state"
    /\ cookieAtStart = cookieFile
    /\ replay = "ok"
    /\ injected = FALSE
    /\ logged_in = TRUE
    /\ base_url = NoneVal
    /\ elapsed = 0
    /\ fileWrites = 0
    /\ bannerShown = FALSE
    /\ visited = {"start", "task"}
    /\ page_url = "https://linear.app"
    /\ sent = << Prompt("task_url", task, 0), Prompt("plan", task, 0) >>
    /\ ui_plan \in {[islist |-> TRUE, items |-> p] : p \in AliasPlans}
    /\ idx = 0
    /\ attempts = <<>>
    /\ lastDrv = NoneVal
    /\ result = NoResult
    /\ results = <<>>
    /\ lastReply = NoReply
    /\ replExecs = 0
    /\ execution_results = "none"
    /\ retval = "none"
    /\ reports = 0
    /\ CaptureIdle
    /\ max_steps = DefaultMaxSteps
    /\ GatewayIdle
    /\ UrlIdle

SpecAlias == InitAlias /\ [][NextPlan]_vars

\* C24: step normalisation is alias-insensitive for every action kind,
\* select included: a pass over a step written with the keys type, sel or
\* query, text or fill gives the result the same pass gives for the step
\* written with action, selector and value.
C24_AliasInsensitive ==
    [][ (pc = "exec" /\ attempts' # attempts) =>
           \A c \in StepUniverse, ka \in ActionKeys, ks \in SelectorKeys, kv \in ValueKeys :
               (c.isobj /\ Alias(c, ka, ks, kv) = ui_plan.items[idx]) =>
                   result' = AttemptStep(c, result, lastDrv').result ]_vars

====
